---- MODULE Spec2Model ----
(***************************************************************************)
(* Coalescing cache-aside engine: Cache[T].GetOrSet over a shared          *)
(* RedisClient, one singleflight.Group per Cache instance.                 *)
(*                                                                         *)
(* T is modelled as a JSON number type: a T value is a natural number, or  *)
(* NaN, which json.Marshal refuses.  Bytes are sequences of one-character  *)
(* strings; errors are sequences of strings (a wrapped error is the        *)
(* prefix followed by the wrapped error).                                  *)
(***************************************************************************)
EXTENDS Integers, Sequences, FiniteSets, TLC

\* ---------------------------------------------------------------- bounds
MaxVal == 2        \* the loader returns a value in 1..MaxVal, or NaN

Callers == {1, 2, 3}              \* goroutines calling GetOrSet
Engines == {"e1", "e2"}           \* Cache instances built over one RedisClient
Keys == {"k1", "k2"}              \* cache keys

\* the (Cache, cacheKey) pairs GetOrSet is called with: the same engine and
\* key, another engine over the same key, another key
Targets == {<<"e1", "k1">>, <<"e2", "k1">>, <<"e1", "k2">>}

\* ------------------------------------------------------- values and errors
NaN == MaxVal + 1                 \* a T value json.Marshal cannot encode
Zero == 0                         \* `var value T`
LoaderValues == (1..MaxVal) \cup {NaN}

NoErr == << >>
ErrLoader == <<"E1">>
ErrCanceled == <<"context canceled">>
ErrBackend == <<"redis: connection refused">>
ErrMarshal == <<"json: unsupported value">>
ErrUnmarshal == <<"json: invalid character">>
LoaderErrs == {ErrLoader}

Wrap(prefix, err) == <<prefix>> \o err

NilBytes == << >>
Corrupt == <<"x">>                \* bytes that are no JSON number

DigitChars == <<"0", "1", "2", "3", "4", "5", "6", "7", "8", "9">>

RECURSIVE Digits(_)
Digits(n) ==
    IF n < 10 THEN <<DigitChars[n + 1]>>
    ELSE Digits(n \div 10) \o <<DigitChars[(n % 10) + 1]>>

DigitOf(ch) == CHOOSE d \in 0..9 : DigitChars[d + 1] = ch

IsDigit(ch) == \E d \in 0..9 : DigitChars[d + 1] = ch

RECURSIVE ParseDigits(_)
ParseDigits(b) ==
    IF Len(b) = 0 THEN 0
    ELSE 10 * ParseDigits(SubSeq(b, 1, Len(b) - 1)) + DigitOf(b[Len(b)])

\* json.Marshal(t)
Marshal(t) ==
    IF t = NaN THEN [bytes |-> NilBytes, err |-> ErrMarshal]
    ELSE [bytes |-> Digits(t), err |-> NoErr]

\* json.Unmarshal(bytes, &value)
Unmarshal(b) ==
    IF /\ Len(b) > 0
       /\ \A i \in 1..Len(b) : IsDigit(b[i])
       /\ (Len(b) > 1 => b[1] # "0")
    THEN [val |-> ParseDigits(b), err |-> NoErr]
    ELSE [val |-> Zero, err |-> ErrUnmarshal]

\* ------------------------------------------------------------------ state
Expiration == 2    \* time.Second*10, in clock ticks of five seconds

NoEntry == [present |-> FALSE, bytes |-> NilBytes, ttl |-> 0]

VARIABLES
    backend,        \* the redis store: key -> entry
    m,              \* sfg.m of each Cache: engine -> key -> leader of the call (0: none)
    call,           \* the singleflight call each caller is leading
    pc,             \* where each caller is
    eng, key,       \* the Cache and cacheKey of each caller's GetOrSet
    ctx,            \* whether the caller's ctx is cancelled
    att,            \* the leader of the call the caller's sfg.Do waits on
    pass,           \* the completed call a waiting caller's sfg.Do returns from
    joined,         \* the leader whose pass was running when the caller started
    cancelledWaiting, \* the ctx was cancelled while the caller waited in sfg.Do
    ev,             \* the GetOrSet return made by the last step, if it made one
    req             \* the repository helper call each caller's GetOrSet serves

vars == <<backend, m, call, pc, eng, key, ctx, att, pass, joined, cancelledWaiting, ev,
          req>>

NoRet == [val |-> Zero, err |-> NoErr]

\* a singleflight call: val and err are what sfg.Do returns; the fields from
\* read on record what the pass did, hook whether the leader's GetOrSet was
\* given an extraSetFunc, and lret what the leader returned
NewCall ==
    [done |-> FALSE, val |-> NilBytes, err |-> NoErr, hook |-> FALSE,
     read |-> "none", reads |-> 0, found |-> NilBytes,
     loads |-> 0, loaded |-> Zero, loadErr |-> NoErr,
     sets |-> 0, setOK |-> FALSE, hooks |-> 0, hookArg |-> NilBytes,
     hookOK |-> TRUE, lret |-> NoRet]

NoCall == NewCall

\* no helper: GetOrSet called directly
NoReq == [helper |-> "none", table |-> "", column |-> "", value |-> "", limit |-> 0]

\* a return of GetOrSet: who returned what, from which pass
Event(p, role, r, c) ==
    [role |-> role, ret |-> r, pass |-> c, att |-> att[p], joined |-> joined[p],
     cancelledWaiting |-> cancelledWaiting[p], req |-> req[p]]

NoEvent ==
    [role |-> "none", ret |-> NoRet, pass |-> NoCall, att |-> 0, joined |-> 0,
     cancelledWaiting |-> FALSE, req |-> NoReq]

\* the state after construction of the Caches es over a store with keys ks
Start(es, ks) ==
    /\ backend = [k \in ks |-> NoEntry]
    /\ m = [e \in es |-> [k \in ks |-> 0]]
    /\ call = [p \in Callers |-> NoCall]
    /\ pc = [p \in Callers |-> "idle"]
    /\ eng = [p \in Callers |-> "e1"]
    /\ key = [p \in Callers |-> "k1"]
    /\ ctx = [p \in Callers |-> FALSE]
    /\ att = [p \in Callers |-> 0]
    /\ pass = [p \in Callers |-> NoCall]
    /\ joined = [p \in Callers |-> 0]
    /\ cancelledWaiting = [p \in Callers |-> FALSE]
    /\ ev = NoEvent
    /\ req = [p \in Callers |-> NoReq]

Init == Start(Engines, Keys)

\* the callers running a leader pass (the closure handed to sfg.Do)
Leading == {p \in Callers : pc[p] \in {"read", "load", "set", "hook"}}

\* the leader passes of engine e for key k that are running
Running(e, k) == {p \in Leading : eng[p] = e /\ key[p] = k}

\* Lookup that never finds the call in flight
LookupNothing(e, k) == 0

\* Lookup that finds the engine's call in flight for any key
LookupAnyKey(e, k) ==
    IF \E k2 \in DOMAIN m[e] : m[e][k2] # 0
    THEN m[e][CHOOSE k2 \in DOMAIN m[e] : m[e][k2] # 0]
    ELSE 0

\* sfg.Do: the lookup in g.m under g.mu
Lookup(e, k) == m[e][k]

\* GetOrSet entry up to sfg.Do's lookup: attach to the call in flight for
\* cacheKey, or create one and become its leader (idle callers are
\* interchangeable: the lowest one calls)
Call(p, e, k) ==
    /\ pc[p] = "idle"
    /\ \A q \in Callers : q < p => pc[q] # "idle"
    /\ eng' = [eng EXCEPT ![p] = e]
    /\ key' = [key EXCEPT ![p] = k]
    /\ joined' = [joined EXCEPT ![p] =
                    IF Running(e, k) = {} THEN 0 ELSE CHOOSE q \in Running(e, k) : TRUE]
    /\ IF Lookup(e, k) # 0
       THEN /\ att' = [att EXCEPT ![p] = Lookup(e, k)]
            /\ pc' = [pc EXCEPT ![p] = "wait"]
            /\ UNCHANGED <<m, call>>
       ELSE /\ call' = [call EXCEPT ![p] = NewCall]
            /\ att' = [att EXCEPT ![p] = p]
            /\ pc' = [pc EXCEPT ![p] = "read"]
            /\ m' = [m EXCEPT ![e][k] = p]
    /\ ev' = NoEvent
    /\ UNCHANGED <<backend, ctx, pass, cancelledWaiting>>

\* Returned that drops the error of json.Unmarshal
ReturnedDroppingDecodeError(c) ==
    IF c.err # NoErr THEN [val |-> Zero, err |-> c.err]
    ELSE [val |-> Unmarshal(c.val).val, err |-> NoErr]

\* GetOrSet after sfg.Do returned (res, err): the error, or the decoded bytes
Returned(c) ==
    IF c.err # NoErr THEN [val |-> Zero, err |-> c.err]
    ELSE Unmarshal(c.val)

\* caller p's GetOrSet returns r from pass c; the goroutine is idle again
Return(p, role, r, c) ==
    /\ ev' = Event(p, role, r, c)
    /\ pc' = [pc EXCEPT ![p] = "idle"]
    /\ eng' = [eng EXCEPT ![p] = "e1"]
    /\ key' = [key EXCEPT ![p] = "k1"]
    /\ ctx' = [ctx EXCEPT ![p] = FALSE]
    /\ att' = [att EXCEPT ![p] = 0]
    /\ joined' = [joined EXCEPT ![p] = 0]
    /\ cancelledWaiting' = [cancelledWaiting EXCEPT ![p] = FALSE]
    /\ req' = [req EXCEPT ![p] = NoReq]

\* Waiters that finds nobody blocked on the call
WaitersNone(p) == {}

\* the callers blocked in sfg.Do on the call led by p
Waiters(p) == {q \in Callers : pc[q] = "wait" /\ att[q] = p /\ ~pass[q].done}

\* Finish that leaves the key in g.m
FinishKeepingSlot(p, c) ==
    LET r == Returned(c)
        d == [c EXCEPT !.done = TRUE, !.lret = r]
    IN /\ call' = [call EXCEPT ![p] = NoCall]
       /\ m' = m
       /\ pass' = [q \in Callers |-> IF q \in Waiters(p) THEN d ELSE pass[q]]
       /\ Return(p, "leader", r, d)

\* the closure of leader p returns with call record c: sfg.Do publishes
\* (val, err) to the callers waiting on the call and deletes the key from
\* g.m; the leader decodes and returns
Finish(p, c) ==
    LET r == Returned(c)
        d == [c EXCEPT !.done = TRUE, !.lret = r]
    IN /\ call' = [call EXCEPT ![p] = NoCall]
       /\ m' = [m EXCEPT ![eng[p]][key[p]] = IF @ = p THEN 0 ELSE @]
       /\ pass' = [q \in Callers |-> IF q \in Waiters(p) THEN d ELSE pass[q]]
       /\ Return(p, "leader", r, d)

\* the closure of leader p goes on to step next with call record c
Continue(p, c, next) ==
    /\ call' = [call EXCEPT ![p] = c]
    /\ pc' = [pc EXCEPT ![p] = next]
    /\ ev' = NoEvent
    /\ UNCHANGED <<m, pass, eng, key, ctx, att, joined, cancelledWaiting, req>>

\* RedisClient.Get: (bytes, exist, err)
ClientGet(k, reachable) ==
    IF ~reachable
    THEN [bytes |-> NilBytes, exist |-> FALSE,
          err |-> Wrap("failed to get from redis", ErrBackend)]
    ELSE IF ~backend[k].present
    THEN [bytes |-> NilBytes, exist |-> FALSE, err |-> NoErr]
    ELSE [bytes |-> backend[k].bytes, exist |-> TRUE, err |-> NoErr]

\* AfterGet that goes on to the loader although the bytes exist
AfterGetIgnoringHit(c, g) ==
    [c EXCEPT !.reads = @ + 1, !.found = g.bytes,
              !.read = IF g.err # NoErr THEN "fail" ELSE "miss"]

\* AfterGet that returns the error of the read
AfterGetFailing(c, g) ==
    LET c1 == [c EXCEPT !.reads = @ + 1, !.found = g.bytes]
    IN IF g.err # NoErr THEN [c1 EXCEPT !.read = "fail", !.err = g.err]
       ELSE IF g.exist THEN [c1 EXCEPT !.read = "hit", !.val = g.bytes]
       ELSE [c1 EXCEPT !.read = "miss"]

\* what the closure does with the result g of c.client.Get: return the bytes
\* when they exist, go on to the loader otherwise (an error is logged)
AfterGet(c, g) ==
    LET c1 == [c EXCEPT !.reads = @ + 1, !.found = g.bytes]
    IN IF g.exist
       THEN [c1 EXCEPT !.read = "hit", !.val = g.bytes]
       ELSE [c1 EXCEPT !.read = IF g.err # NoErr THEN "fail" ELSE "miss"]

\* the closure returns once it holds the cached bytes or an error
Returns(c) == c.read = "hit" \/ c.err # NoErr

\* the closure's cache read; a cancelled ctx fails the redis command
Read(p) ==
    /\ pc[p] = "read"
    /\ \E reachable \in (IF ctx[p] THEN {FALSE} ELSE BOOLEAN) :
         LET c == AfterGet(call[p], ClientGet(key[p], reachable))
         IN IF Returns(c)
            THEN Finish(p, c)
            ELSE Continue(p, c, "load")
    /\ UNCHANGED backend

\* LoaderOutcomes where the loader runs with the ctx of any caller of the pass
LoaderOutcomesAnyCtx(p) ==
    [val : LoaderValues, err : {NoErr}]
    \cup [val : {Zero},
          err : LoaderErrs \cup (IF \E q \in {p} \cup Waiters(p) : ctx[q]
                                 THEN {ErrCanceled} ELSE {})]

\* the outcomes callback(ctx) can have
LoaderOutcomes(p) ==
    [val : LoaderValues, err : {NoErr}]
    \cup [val : {Zero}, err : LoaderErrs \cup (IF ctx[p] THEN {ErrCanceled} ELSE {})]

\* AfterLoad that wraps the loader's error
AfterLoadWrapping(c, o) ==
    LET c1 == [c EXCEPT !.loads = @ + 1, !.loaded = o.val, !.loadErr = o.err]
    IN IF o.err # NoErr THEN [c1 EXCEPT !.err = Wrap("failed to load", o.err)]
       ELSE IF Marshal(o.val).err # NoErr THEN [c1 EXCEPT !.err = Marshal(o.val).err]
       ELSE [c1 EXCEPT !.val = Marshal(o.val).bytes]

\* AfterLoad that goes on to the write when json.Marshal fails
AfterLoadIgnoringMarshal(c, o) ==
    LET c1 == [c EXCEPT !.loads = @ + 1, !.loaded = o.val, !.loadErr = o.err]
    IN IF o.err # NoErr THEN [c1 EXCEPT !.err = o.err]
       ELSE [c1 EXCEPT !.val = Marshal(o.val).bytes]

\* what the closure does with the loader's outcome o: return its error, or
\* json.Marshal the value and return the error of that
AfterLoad(c, o) ==
    LET c1 == [c EXCEPT !.loads = @ + 1, !.loaded = o.val, !.loadErr = o.err]
    IN IF o.err # NoErr THEN [c1 EXCEPT !.err = o.err]
       ELSE IF Marshal(o.val).err # NoErr THEN [c1 EXCEPT !.err = Marshal(o.val).err]
       ELSE [c1 EXCEPT !.val = Marshal(o.val).bytes]

\* the closure's callback(ctx) and json.Marshal
Load(p) ==
    /\ pc[p] = "load"
    /\ \E o \in LoaderOutcomes(p) :
         LET c == AfterLoad(call[p], o)
         IN IF Returns(c)
            THEN Finish(p, c)
            ELSE Continue(p, c, "set")
    /\ UNCHANGED backend

\* ClientSet that stores the entry without the expiration
ClientSetNoTTL(k, bytes, expiration, reachable) ==
    IF reachable
    THEN [store |-> [backend EXCEPT ![k] =
                       [present |-> TRUE, bytes |-> bytes, ttl |-> 0]],
          err |-> NoErr]
    ELSE [store |-> backend, err |-> Wrap("failed to set to redis", ErrBackend)]

\* RedisClient.Set: the store after the write, and the error
ClientSet(k, bytes, expiration, reachable) ==
    IF reachable
    THEN [store |-> [backend EXCEPT ![k] =
                       [present |-> TRUE, bytes |-> bytes, ttl |-> expiration]],
          err |-> NoErr]
    ELSE [store |-> backend, err |-> Wrap("failed to set to redis", ErrBackend)]

\* AfterSet that returns the error of the write
AfterSetFailing(c, err, h) ==
    [c EXCEPT !.sets = @ + 1, !.setOK = (err = NoErr), !.hook = h, !.err = err]

\* what the closure does with the error of c.client.Set: it is logged
AfterSet(c, err, h) ==
    [c EXCEPT !.sets = @ + 1, !.setOK = (err = NoErr), !.hook = h]

\* RunsHook that skips extraSetFunc when the write failed
RunsHookOnSuccess(h, err) == h /\ err = NoErr

\* whether the closure calls extraSetFunc after c.client.Set returned err
RunsHook(h, err) == h

\* the closure's cache write with c.expiration; h is whether the leader's
\* GetOrSet was given an extraSetFunc (len(extraSetFunc) > 0)
Store(p) ==
    /\ pc[p] = "set"
    /\ \E reachable \in (IF ctx[p] THEN {FALSE} ELSE BOOLEAN), h \in BOOLEAN :
         LET s == ClientSet(key[p], call[p].val, Expiration, reachable)
             c == AfterSet(call[p], s.err, h)
         IN /\ backend' = s.store
            /\ IF RunsHook(h, s.err)
               THEN Continue(p, c, "hook")
               ELSE Finish(p, c)

\* AfterHook that returns the error of extraSetFunc
AfterHookFailing(c, ok) ==
    [c EXCEPT !.hooks = @ + 1, !.hookArg = c.val, !.hookOK = ok,
              !.err = IF ok THEN NoErr ELSE <<"hook failed">>]

\* what the closure does with the error of extraSetFunc[0](bytes): it is logged
AfterHook(c, ok) ==
    [c EXCEPT !.hooks = @ + 1, !.hookArg = c.val, !.hookOK = ok]

\* the closure's extraSetFunc[0](bytes)
Hook(p) ==
    /\ pc[p] = "hook"
    /\ \E ok \in BOOLEAN : Finish(p, AfterHook(call[p], ok))
    /\ UNCHANGED backend

\* MayWake that does not wait for the leader
MayWakeEarly(p) == TRUE

\* whether a caller blocked in sfg.Do (c.wg.Wait) may go on
MayWake(p) == pass[p].done

\* a non-leader's sfg.Do returns the call's (val, err); it decodes and returns
Wake(p) ==
    /\ pc[p] = "wait"
    /\ MayWake(p)
    /\ Return(p, "waiter", Returned(pass[p]), pass[p])
    /\ pass' = [pass EXCEPT ![p] = NoCall]
    /\ UNCHANGED <<backend, m, call>>

\* the caller's ctx is cancelled while its GetOrSet is running
Cancel(p) ==
    /\ p \in Leading \/ (pc[p] = "wait" /\ ~pass[p].done)
    /\ ~ctx[p]
    /\ ctx' = [ctx EXCEPT ![p] = TRUE]
    /\ cancelledWaiting' = [cancelledWaiting EXCEPT ![p] = (pc[p] = "wait")]
    /\ ev' = NoEvent
    /\ UNCHANGED <<backend, m, call, pc, eng, key, att, pass, joined, req>>

\* redis expiry: one clock tick passes (an entry stored with expiration 0
\* does not expire)
Tick ==
    /\ \E k \in Keys : backend[k].present
    /\ backend' = [k \in Keys |->
                     IF ~backend[k].present \/ backend[k].ttl = 0 THEN backend[k]
                     ELSE IF backend[k].ttl = 1 THEN NoEntry
                     ELSE [backend[k] EXCEPT !.ttl = @ - 1]]
    /\ ev' = NoEvent
    /\ UNCHANGED <<m, call, pc, eng, key, ctx, att, pass, joined, cancelledWaiting, req>>

\* another user of the RedisClient stores bytes of its own under k
ForeignSet(k) ==
    /\ backend[k] # [present |-> TRUE, bytes |-> Corrupt, ttl |-> Expiration]
    /\ backend' = ClientSet(k, Corrupt, Expiration, TRUE).store
    /\ ev' = NoEvent
    /\ UNCHANGED <<m, call, pc, eng, key, ctx, att, pass, joined, cancelledWaiting, req>>

\* the steps of the callers in cs calling GetOrSet on the targets in ts
Steps(cs, ts) ==
    \/ \E p \in cs, t \in ts : Call(p, t[1], t[2]) /\ UNCHANGED req
    \/ \E p \in cs : Read(p)
    \/ \E p \in cs : Load(p)
    \/ \E p \in cs : Store(p)
    \/ \E p \in cs : Hook(p)
    \/ \E p \in cs : Wake(p)

\* two callers, two engines over one key, the callers' contexts, the clock
\* and the other users of the redis client
Next ==
    \/ Steps({1, 2}, {<<"e1", "k1">>, <<"e2", "k1">>})
    \/ \E p \in Callers : Cancel(p)
    \/ Tick
    \/ ForeignSet("k1")

Spec == Init /\ [][Next]_vars

\* three callers of one engine and key
NextN ==
    \/ Steps(Callers, {<<"e1", "k1">>})

SpecN == Init /\ [][NextN]_vars

\* two callers over every target
NextMulti ==
    \/ Steps({1, 2}, Targets)

SpecMulti == Init /\ [][NextMulti]_vars

\* three callers of one engine and key, where every step of a leader pass
\* terminates and a goroutine that sfg.Do has released runs on
Run(p) == Read(p) \/ Load(p) \/ Store(p) \/ Hook(p) \/ Wake(p)

SpecLive ==
    /\ Init
    /\ [][NextN]_vars
    /\ \A p \in Callers : WF_vars(Run(p))

\* fmt's %v of a non-negative int
RECURSIVE Sprint(_)
Sprint(n) ==
    IF n < 10 THEN DigitChars[n + 1]
    ELSE Sprint(n \div 10) \o DigitChars[(n % 10) + 1]

\* the tables, columns, values and limits the repository helpers are called with
\* (rows are looked up by IdColumns, limited selections filter by Columns)
Tables == {"users"}
IdColumns == {"id"}
Columns == {"id", "name"}
Values == {"7"}
Limits == {1}

\* cacheKey of RedisRepository.GetByColumn
GetByColumnKey(columnName, columnValue, tableName) ==
    tableName \o ":" \o columnName \o ":" \o columnValue

\* cacheKey of RedisRepository.SelectByColumn
SelectByColumnKey(columnName, columnValue, tableName) ==
    tableName \o ":" \o columnName \o ":" \o columnValue

\* cacheKey of RedisRepository.SelectByColumnWithLimit
SelectByColumnWithLimitKey(columnName, columnValue, tableName, limit) ==
    tableName \o ":limit:" \o Sprint(limit)

\* the keys the helpers build
HelperKeys ==
    UNION {{GetByColumnKey(c, v, t), SelectByColumnKey(c, v, t)}
           : <<c, v, t>> \in IdColumns \X Values \X Tables}
    \cup {SelectByColumnWithLimitKey(c, v, t, l)
           : <<c, v, t, l>> \in Columns \X Values \X Tables \X Limits}

\* the backquote of the SQL text, which a string of the module cannot hold
BQ == "<bq>"

\* the database call the helper's loader makes (all columns selected)
Query(r) ==
    CASE r.helper = "GetByColumn" ->
           [method |-> "GetContext", args |-> <<r.value>>,
            query |-> "SELECT * FROM " \o BQ \o r.table \o BQ \o " WHERE " \o r.column
                        \o " = ?"]
      [] r.helper = "SelectByColumn" ->
           [method |-> "SelectContext", args |-> <<r.value>>,
            query |-> "SELECT * FROM " \o BQ \o r.table \o BQ \o " WHERE "
                        \o BQ \o r.column \o BQ \o " = ?"]
      [] r.helper = "SelectByColumnWithLimit" ->
           [method |-> "SelectContext", args |-> <<r.value>>,
            query |-> "SELECT * FROM " \o BQ \o r.table \o BQ \o " WHERE " \o r.column
                        \o " = ? LIMIT " \o Sprint(r.limit)]
      [] OTHER -> [method |-> "none", args |-> << >>, query |-> ""]

\* caller p's helper call r goes to r.Cache.GetOrSet with cacheKey k
Helper(p, r, k) ==
    /\ Call(p, "e1", k)
    /\ req' = [req EXCEPT ![p] = r]

GetByColumn(p, columnName, columnValue, tableName) ==
    Helper(p, [helper |-> "GetByColumn", table |-> tableName, column |-> columnName,
               value |-> columnValue, limit |-> 0],
           GetByColumnKey(columnName, columnValue, tableName))

SelectByColumn(p, columnName, columnValue, tableName) ==
    Helper(p, [helper |-> "SelectByColumn", table |-> tableName,
               column |-> columnName, value |-> columnValue, limit |-> 0],
           SelectByColumnKey(columnName, columnValue, tableName))

SelectByColumnWithLimit(p, columnName, columnValue, tableName, limit) ==
    Helper(p, [helper |-> "SelectByColumnWithLimit", table |-> tableName,
               column |-> columnName, value |-> columnValue, limit |-> limit],
           SelectByColumnWithLimitKey(columnName, columnValue, tableName, limit))

\* two callers of one repository's helpers
InitHelpers == Start({"e1"}, HelperKeys)

NextHelpers ==
    \/ \E p \in {1, 2}, c \in IdColumns, v \in Values, t \in Tables :
          GetByColumn(p, c, v, t)
    \/ \E p \in {1, 2}, c \in IdColumns, v \in Values, t \in Tables :
          SelectByColumn(p, c, v, t)
    \/ \E p \in {1, 2}, c \in Columns, v \in Values, t \in Tables, l \in Limits :
          SelectByColumnWithLimit(p, c, v, t, l)
    \/ \E p \in {1, 2} : Read(p)
    \/ \E p \in {1, 2} : Load(p)
    \/ \E p \in {1, 2} : Store(p)
    \/ \E p \in {1, 2} : Hook(p)
    \/ \E p \in {1, 2} : Wake(p)

SpecHelpers == InitHelpers /\ [][NextHelpers]_vars

\* ------------------------------------------------------------ properties

\* the return the last step made
Ret == ev.role # "none"

\* the call records in the state: running, delivered to a waiter, returned
Records ==
    {call[p] : p \in Leading} \cup {pass[p] : p \in {q \in Callers : pass[q].done}}
    \cup (IF Ret THEN {ev.pass} ELSE {})

\* the call record of leader p after the step it takes
After(p) == IF pc'[p] = "idle" THEN ev'.pass ELSE call'[p]

\* p takes a step of its leader pass from position at
StepFrom(p, at) == pc[p] = at /\ pc'[p] # at

\* C1: callers of GetOrSet(K) that start while a leader pass for K is running
\* on the same engine attach to that pass; the pass invokes the loader exactly
\* once when its read finds nothing, and every caller returns the loader's value
C1_Coalesced ==
    /\ \A p \in Callers : joined[p] # 0 => pc[p] = "wait" /\ att[p] = joined[p]
    /\ \A c \in Records : c.loads <= 1
    /\ Ret => /\ ev.joined # 0 => ev.role = "waiter" /\ ev.att = ev.joined
              /\ ev.pass.read # "hit" => ev.pass.loads = 1
              /\ ev.ret = ev.pass.lret
              /\ (ev.pass.read # "hit" /\ ev.pass.err = NoErr)
                    => ev.ret = [val |-> ev.pass.loaded, err |-> NoErr]

\* two callers joined the pass of a third; one returned the loader's value
\* and the other is about to
C1_Witness ==
    /\ ev.role = "waiter" /\ ev.joined # 0
    /\ ev.pass.loads = 1 /\ ev.pass.loaded = 2
    /\ ev.ret = [val |-> 2, err |-> NoErr]
    /\ \E q \in Callers : pc[q] = "wait" /\ joined[q] # 0 /\ pass[q] = ev.pass

\* C2 as stated: at most one leader pass is running for a key in the whole
\* process, whichever engine the calls go through
C2_OnePassPerKey ==
    \A k \in Keys : Cardinality({p \in Leading : key[p] = k}) <= 1

\* C2 amended: at most one leader pass is running for a key on one engine
C2_OnePassPerEngineKey ==
    \A e \in Engines, k \in Keys : Cardinality(Running(e, k)) <= 1

\* two engines over the same client run a pass for the same key at once
C2_Witness ==
    \E p, q \in Leading : key[p] = key[q] /\ eng[p] # eng[q] /\ m[eng[p]][key[p]] = p
                          /\ m[eng[q]][key[q]] = q

\* C3: every caller attached to a pass returns what its leader returned; a
\* waiter reads, loads and writes nothing of its own, and the pass reads the
\* cache once
C3_SameOutcome ==
    /\ Ret => ev.ret = ev.pass.lret /\ ev.pass.reads = 1
    /\ \A p \in Callers : pc[p] = "wait" => call[p] = NoCall
    /\ \A p \in Callers : pc[p] = "wait" /\ pass[p].done
          => pass[p].reads = 1 /\ Returned(pass[p]) = pass[p].lret

\* a waiter returned the error of its pass while another waiter of the same
\* pass has yet to return
C3_Witness ==
    /\ ev.role = "waiter" /\ ev.ret.err = ErrLoader /\ ev.pass.reads = 1
    /\ \E q \in Callers : pc[q] = "wait" /\ pass[q] = ev.pass

\* C4 as stated: a waiter whose ctx was cancelled while it waited returns a
\* cancellation error
C4_CancelledWaiterReturnsCanceled ==
    (ev.role = "waiter" /\ ev.cancelledWaiting) => ev.ret.err = ErrCanceled

\* C5: when the leader's read finds the entry, the pass returns the stored
\* bytes to its callers without loading, writing or running the hook, and the
\* backend is as it was
C5_HitBypassesLoader ==
    /\ [](\A c \in Records : c.read = "hit"
            => c.loads = 0 /\ c.sets = 0 /\ c.hooks = 0 /\ c.val = c.found /\ c.err = NoErr)
    /\ [](Ret /\ ev.pass.read = "hit" => ev.ret = Unmarshal(ev.pass.found))
    /\ [][\A p \in Callers : StepFrom(p, "read") =>
            /\ backend' = backend
            /\ After(p).read = "hit" => /\ pc'[p] = "idle"
                                        /\ backend[key[p]].present
                                        /\ After(p).found = backend[key[p]].bytes
            /\ After(p).read = "miss" => ~backend[key[p]].present]_vars

\* a pass ended in a hit and its leader returned the decoded entry
C5_Witness ==
    /\ ev.role = "leader" /\ ev.pass.read = "hit"
    /\ ev.ret = [val |-> 1, err |-> NoErr]
    /\ backend["k1"].present /\ backend["k1"].bytes = ev.pass.found

\* C6: the write of a pass that missed and loaded stores under K the
\* serialized bytes of the loader's value with the engine's TTL
C6_MissPopulates ==
    /\ [](\A c \in Records : c.sets > 0
            => /\ c.sets = 1 /\ c.read # "hit" /\ c.loads = 1 /\ c.loadErr = NoErr
               /\ c.val = Marshal(c.loaded).bytes /\ Marshal(c.loaded).err = NoErr)
    /\ [][\A p \in Callers : (StepFrom(p, "set") /\ After(p).setOK) =>
            /\ backend'[key[p]] = [present |-> TRUE,
                                   bytes |-> Marshal(call[p].loaded).bytes,
                                   ttl |-> Expiration]
            /\ \A k \in Keys \ {key[p]} : backend'[k] = backend[k]]_vars

\* a pass missed, loaded 2 and wrote it; the backend holds "2" with the TTL
C6_Witness ==
    /\ ev.role = "leader" /\ ev.pass.read = "miss" /\ ev.pass.setOK
    /\ ev.pass.loaded = 2
    /\ backend["k1"] = [present |-> TRUE, bytes |-> <<"2">>, ttl |-> Expiration]

\* C7: when the loader fails with E, every caller of the pass returns E
\* itself, and the pass writes nothing and runs no hook
C7_LoaderFailure ==
    /\ [](\A c \in Records : c.loadErr # NoErr
            => c.err = c.loadErr /\ c.sets = 0 /\ c.hooks = 0 /\ ~c.setOK)
    /\ [](Ret /\ ev.pass.loadErr # NoErr
            => ev.ret = [val |-> Zero, err |-> ev.pass.loadErr])
    /\ [][\A p \in Callers :
            (StepFrom(p, "read") \/ (StepFrom(p, "load") /\ After(p).loadErr # NoErr))
               => backend' = backend]_vars

\* a waiter returned the loader's error, the entry that was there still is
C7_Witness ==
    /\ ev.role = "waiter" /\ ev.pass.loadErr = ErrLoader /\ ev.ret.err = ErrLoader
    /\ ev.pass.read = "fail" /\ backend["k1"].present

\* C8: a failed read is treated as a miss: the loader runs, and when it
\* succeeds the callers return its value with no error
C8_ReadFailureIsMiss ==
    /\ [](\A c \in Records : (c.read = "fail" /\ c.done) => c.loads = 1)
    /\ [](Ret /\ ev.pass.read = "fail" /\ ev.pass.loadErr = NoErr /\ ev.pass.loaded # NaN
            => ev.ret = [val |-> ev.pass.loaded, err |-> NoErr])
    /\ [][\A p \in Callers : (StepFrom(p, "read") /\ After(p).read = "fail")
            => pc'[p] = "load" /\ call'[p].err = NoErr]_vars

\* the read failed although the entry exists; the caller returned the
\* loader's value
C8_Witness ==
    /\ ev.role = "waiter" /\ ev.pass.read = "fail" /\ ev.pass.loaded = 1
    /\ ev.ret = [val |-> 1, err |-> NoErr]
    /\ ~ev.pass.setOK /\ backend["k1"].bytes = Corrupt

\* C9: a failed write does not fail the call: the callers return the value
\* just computed, and the backend is as it was before the write
C9_WriteFailureNonFatal ==
    /\ [](Ret /\ ev.pass.sets = 1 /\ ~ev.pass.setOK
            => ev.ret = [val |-> ev.pass.loaded, err |-> NoErr])
    /\ [][\A p \in Callers : (StepFrom(p, "set") /\ ~After(p).setOK)
            => backend' = backend /\ After(p).err = NoErr]_vars

\* the write failed and a waiter returned the value
C9_Witness ==
    /\ ev.role = "waiter" /\ ev.pass.sets = 1 /\ ~ev.pass.setOK
    /\ ev.ret = [val |-> 2, err |-> NoErr] /\ ~backend["k1"].present

\* C10 as stated: the hook runs only after a successful write
C10_HookOnlyAfterSuccessfulWrite ==
    \A c \in Records : c.hooks > 0 => c.setOK

\* C10 amended: the hook runs at most once in a pass, with the serialized
\* bytes, after the pass's write was attempted, whether or not it succeeded;
\* it runs in every pass that attempted the write and was given a hook, and in
\* no pass that ended in a hit, a loader failure or a serialization failure
C10_HookAfterWriteAttempt ==
    /\ \A c \in Records :
         /\ c.hooks <= 1
         /\ c.hooks = 1 => /\ c.sets = 1 /\ c.hook
                           /\ c.hookArg = Marshal(c.loaded).bytes
                           /\ c.hookArg = c.val
         /\ (c.read = "hit" \/ c.err # NoErr) => c.hooks = 0
    /\ Ret => (ev.pass.hooks = 1 <=> (ev.pass.sets = 1 /\ ev.pass.hook))

\* the hook ran in a pass whose write had failed
C10_Witness ==
    /\ ev.role = "leader" /\ ev.pass.hooks = 1 /\ ~ev.pass.setOK
    /\ ev.pass.hookArg = <<"1">>

\* C11: a failing hook is never surfaced: the callers of the pass return the
\* computed value with no error, and the hook's step leaves the store alone
C11_HookFailureNotSurfaced ==
    /\ [](\A c \in Records : (c.hooks = 1 /\ ~c.hookOK) => c.err = NoErr)
    /\ [](Ret /\ ev.pass.hooks = 1 /\ ~ev.pass.hookOK
            => ev.ret = [val |-> ev.pass.loaded, err |-> NoErr])
    /\ [][\A p \in Callers : StepFrom(p, "hook") => backend' = backend]_vars

\* the hook failed after a successful write; a waiter returned the value and
\* the entry is still in the store
C11_Witness ==
    /\ ev.role = "waiter" /\ ev.pass.hooks = 1 /\ ~ev.pass.hookOK /\ ev.pass.setOK
    /\ ev.ret = [val |-> 2, err |-> NoErr]
    /\ backend["k1"] = [present |-> TRUE, bytes |-> <<"2">>, ttl |-> Expiration]

\* the errors GetOrSet may return: the loader's, json.Marshal's, json.Unmarshal's
CallerErrors == LoaderErrs \cup {ErrCanceled, ErrMarshal, ErrUnmarshal}

\* C12: whatever the backend and the hook do, GetOrSet returns a value with no
\* error, or the error of the loader, of the serialization or of the
\* deserialization; never an error of the cache read, the cache write or the hook
C12_OnlyCallerErrors ==
    Ret => /\ ev.ret.err = NoErr => ev.ret.val \in 1..MaxVal
           /\ ev.ret.err # NoErr =>
                /\ ev.ret.val = Zero
                /\ ev.ret.err \in CallerErrors
                /\ ev.ret.err \in LoaderErrs \cup {ErrCanceled} => ev.ret.err = ev.pass.loadErr
                /\ ev.ret.err = ErrMarshal => ev.pass.loads = 1 /\ ev.pass.loaded = NaN
                /\ ev.ret.err = ErrUnmarshal =>
                     ev.pass.read = "hit" /\ Unmarshal(ev.pass.found).err # NoErr
           /\ (ev.pass.loads = 1 /\ ev.pass.loadErr = NoErr /\ ev.pass.loaded # NaN)
                 => ev.ret.err = NoErr

\* the read, the write and the hook all failed, and the caller returned the value
C12_Witness ==
    /\ ev.role = "leader" /\ ev.pass.read = "fail" /\ ev.pass.sets = 1 /\ ~ev.pass.setOK
    /\ ev.pass.hooks = 1 /\ ~ev.pass.hookOK
    /\ ev.ret = [val |-> 1, err |-> NoErr]

\* a clock tick passed in this step: some entry aged or expired
Aged == \E k \in Keys : /\ backend[k].present
                        /\ \/ ~backend'[k].present
                           \/ backend'[k].ttl < backend[k].ttl

\* C13: an entry written with the engine's TTL is gone once that many ticks
\* have passed, unless it was rewritten, and it is there until then; a pass
\* whose read reaches the store hits exactly when the entry is there, and a
\* pass that misses invokes the loader again
C13_TTLRespected ==
    /\ [](\A k \in Keys : backend[k].present => backend[k].ttl \in 1..Expiration)
    /\ [][Aged => \A k \in Keys :
            backend[k].present =>
               IF backend[k].ttl = 1 THEN ~backend'[k].present
               ELSE backend'[k] = [backend[k] EXCEPT !.ttl = @ - 1]]_vars
    /\ [][\A k \in Keys : (backend[k].present /\ ~backend'[k].present)
            => backend[k].ttl = 1]_vars
    /\ [][\A p \in Callers : (StepFrom(p, "read") /\ After(p).read # "fail")
            => (After(p).read = "hit" <=> backend[key[p]].present)]_vars
    /\ [](\A c \in Records : (c.done /\ c.read = "miss") => c.loads = 1)

\* a waiter of the pass that wrote the entry has yet to return; the entry
\* expired meanwhile, and its engine's next pass missed and loaded again
C13_Witness ==
    /\ pc[2] = "wait" /\ pass[2].done /\ pass[2].setOK /\ pass[2].loaded = 1
    /\ ev.role = "leader" /\ ev.att = att[2]
    /\ ev.pass.read = "miss" /\ ev.pass.loads = 1 /\ ev.pass.loaded = 2
    /\ ev.pass.setOK
    /\ backend["k1"] = [present |-> TRUE, bytes |-> <<"2">>, ttl |-> Expiration]

\* the loader of the pass returned a value that json.Marshal rejects
MarshalFailed(c) ==
    c.loads = 1 /\ c.loadErr = NoErr /\ Marshal(c.loaded).err # NoErr

\* C14: when the loaded value cannot be serialized, the pass ends with the
\* serialization error, which the leader and every waiter return with the
\* zero value; the pass writes nothing, runs no hook, and its load step
\* leaves the store as it was
C14_MarshalFailure ==
    /\ [](\A c \in Records : MarshalFailed(c) =>
            /\ c.done /\ c.err = ErrMarshal
            /\ c.lret = [val |-> Zero, err |-> ErrMarshal]
            /\ c.sets = 0 /\ c.hooks = 0)
    /\ [](Ret /\ MarshalFailed(ev.pass)
            => ev.ret = [val |-> Zero, err |-> ErrMarshal])
    /\ [][\A p \in Callers : StepFrom(p, "load") => backend' = backend]_vars

C14_Witness ==
    /\ ev.role = "waiter" /\ ev.joined # 0 /\ MarshalFailed(ev.pass)
    /\ ev.pass.read = "miss"
    /\ ev.ret = [val |-> Zero, err |-> ErrMarshal]
    /\ ~backend["k1"].present

\* C15: an engine's slot for a key is held exactly while its pass runs: it
\* is released in the step that completes the pass, and a call that begins
\* when no pass is running becomes the leader of a new pass, which starts
\* from nothing, reads the cache again, and returns its own outcome
C15_SlotLifecycle ==
    /\ [](\A t \in Targets : m[t[1]][t[2]] # 0 => Running(t[1], t[2]) = {m[t[1]][t[2]]})
    /\ [](\A p \in Leading : m[eng[p]][key[p]] = p)
    /\ [][\A p \in Callers : (p \in Leading /\ pc'[p] = "idle")
            => m'[eng[p]][key[p]] = 0]_vars
    /\ [][\A p \in Callers :
            (pc[p] = "idle" /\ pc'[p] # "idle" /\ Running(eng'[p], key'[p]) = {})
               => /\ pc'[p] = "read" /\ call'[p] = NewCall
                  /\ m'[eng'[p]][key'[p]] = p /\ att'[p] = p]_vars
    /\ [][\A p \in Callers : StepFrom(p, "read") => After(p).reads = 1]_vars
    /\ [](Ret /\ ev.role = "leader"
            => ev.joined = 0 /\ ev.pass.reads = 1 /\ ev.ret = Returned(ev.pass))

\* caller 3 still holds the outcome of a completed pass, while caller 1
\* leads the next pass for the same key, which has read the cache again and
\* which caller 2 has joined
C15_Witness ==
    /\ pc[3] = "wait" /\ pass[3].done
    /\ pc[1] \in {"load", "set"} /\ call[1].reads = 1 /\ m["e1"]["k1"] = 1
    /\ eng[1] = eng[3] /\ key[1] = key[3]
    /\ pc[2] = "wait" /\ att[2] = 1 /\ ~pass[2].done

\* bytes that json.Unmarshal cannot decode into T
Undecodable(b) == Unmarshal(b).err # NoErr

\* C16: a pass that reads an undecodable entry returns its bytes without
\* invoking the loader, writing or running the hook, and its read leaves the
\* entry as it is; the leader and each waiter of the pass return the
\* deserialization error with the zero value; and while the entry is there,
\* every pass whose read reaches the store ends this way
C16_UndecodableEntry ==
    /\ [](\A c \in Records : (c.read = "hit" /\ Undecodable(c.found)) =>
            /\ c.err = NoErr /\ c.val = c.found
            /\ c.loads = 0 /\ c.sets = 0 /\ c.hooks = 0
            /\ c.done => c.lret = [val |-> Zero, err |-> ErrUnmarshal])
    /\ [](Ret /\ ev.pass.read = "hit" /\ Undecodable(ev.pass.found)
            => ev.ret = [val |-> Zero, err |-> ErrUnmarshal])
    /\ [][\A p \in Callers : StepFrom(p, "read") =>
            /\ backend' = backend
            /\ (/\ backend[key[p]].present
                /\ Undecodable(backend[key[p]].bytes)
                /\ After(p).read # "fail")
               => /\ pc'[p] = "idle"
                  /\ After(p).read = "hit"
                  /\ After(p).found = backend[key[p]].bytes
                  /\ ev'.ret.err = ErrUnmarshal]_vars

C16_Witness ==
    /\ ev.role = "waiter" /\ ev.joined # 0
    /\ ev.pass.read = "hit" /\ ev.pass.found = Corrupt /\ ev.pass.loads = 0
    /\ ev.ret = [val |-> Zero, err |-> ErrUnmarshal]
    /\ backend["k1"] = [present |-> TRUE, bytes |-> Corrupt, ttl |-> 1]

\* C17: two helper calls in flight on the same table have the same cacheKey
\* only if their loaders make the same database call
C17_KeysIdentifyQuery ==
    \A p, q \in Callers :
        (/\ pc[p] # "idle" /\ pc[q] # "idle"
         /\ req[p].helper # "none" /\ req[q].helper # "none"
         /\ req[p].table = req[q].table
         /\ key[p] = key[q])
        => Query(req[p]) = Query(req[q])

\* C18: the loader of a pass runs with the leader's ctx: it fails with the
\* cancellation error only if the leader's ctx is cancelled, whatever the ctx
\* of the waiters, and then every caller of the pass, a waiter whose own ctx
\* is live included, returns that error; only the leader runs the pass
C18_LeaderContextGoverns ==
    /\ [][\A p \in Callers : StepFrom(p, "load") =>
            /\ m[eng[p]][key[p]] = p
            /\ After(p).loadErr = ErrCanceled => ctx[p]]_vars
    /\ [](\A p \in Callers : (pc[p] = "wait") => call[p] = NoCall)
    /\ [](\A c \in Records : c.loadErr = ErrCanceled => c.done /\ c.err = ErrCanceled)
    /\ [](Ret /\ ev.pass.loadErr = ErrCanceled
            => ev.ret = [val |-> Zero, err |-> ErrCanceled])

C18_Witness ==
    /\ ev.role = "waiter" /\ ev.joined # 0 /\ ~ev.cancelledWaiting
    /\ ev.pass.loads = 1 /\ ev.pass.loadErr = ErrCanceled
    /\ ev.ret = [val |-> Zero, err |-> ErrCanceled]

\* C19: every GetOrSet call that has started eventually returns (no caller
\* is in a call from some point on for ever), and no waiter stays blocked
\* once its pass has completed, with a value or with an error
C19_EveryCallReturns ==
    /\ \A p \in Callers : []<>(pc[p] = "idle")
    /\ \A p \in Callers : []<>(~(pc[p] = "wait" /\ pass[p].done))

\* one waiter has returned the error of a completed pass and another waiter
\* of that pass is about to
C19_Witness ==
    /\ ev.role = "waiter" /\ ev.ret.err # NoErr /\ ev.pass.err # NoErr
    /\ pc[3] = "wait" /\ pass[3].done /\ pass[3] = ev.pass
    /\ pc[1] = "idle" /\ pc[2] = "idle"

\* C20: a caller waits only on a running pass of its own engine for its own
\* key, and a completed pass is handed only to the callers waiting on it for
\* that key; a step of a pass for a key leaves the entry and the in-flight
\* slot of every other key as they were, and its read is of its own entry
C20_KeysIndependent ==
    /\ [](\A p \in Callers : (pc[p] = "wait" /\ ~pass[p].done) =>
            /\ att[p] \in Leading
            /\ key[att[p]] = key[p] /\ eng[att[p]] = eng[p])
    /\ [][\A p \in Leading, q \in Callers :
            (pc'[p] = "idle" /\ pass'[q] # pass[q] /\ pass'[q].done)
               => /\ pc[q] = "wait" /\ att[q] = p
                  /\ key[q] = key[p] /\ eng[q] = eng[p]
                  /\ pass'[q] = ev'.pass]_vars
    /\ [][\A p \in Leading : pc'[p] # pc[p] =>
            \A k \in Keys \ {key[p]} :
               /\ backend'[k] = backend[k]
               /\ \A e \in Engines : m'[e][k] = m[e][k]]_vars
    /\ [][\A p \in Callers : StepFrom(p, "read") =>
            /\ After(p).read = "hit" =>
                 backend[key[p]].present /\ After(p).found = backend[key[p]].bytes
            /\ After(p).read = "miss" => ~backend[key[p]].present]_vars

\* two passes of one engine for different keys run at once, and the entry of
\* one key is stored while the other key has none
C20_Witness ==
    /\ pc[1] = "load" /\ key[1] = "k1" /\ eng[1] = "e1" /\ m["e1"]["k1"] = 1
    /\ pc[2] = "hook" /\ key[2] = "k2" /\ eng[2] = "e1" /\ m["e1"]["k2"] = 2
    /\ call[2].setOK /\ backend["k2"].present /\ ~backend["k1"].present

====
